---- MODULE Spec2Model ----
(***************************************************************************)
(* Host-side Frame2TTL drivers (Software/Python/frame2ttl.py, class        *)
(* Frame2TTL, firmware v4; Software/Legacy/Python/v2/Frame2TTLv2.py, class *)
(* Frame2TTLv2) as a state machine.  One session talks to one device over  *)
(* a serial transport.  Every call on the session is an action; a call     *)
(* that blocks in port.read is split at the read, which is where the       *)
(* device acts.  Each action records the effects of the call, in code      *)
(* order, in last.ev: the port.write calls, the port.read results and the  *)
(* assignments to the session's attributes.                                *)
(***************************************************************************)
EXTENDS Integers, Sequences, FiniteSets

VARIABLES
    driver,            \* "v4": frame2ttl.Frame2TTL, "v2": Frame2TTLv2.Frame2TTLv2
    dev,               \* what the attached device answers during connect
    pc,                \* position of the session: inside __init__, ready, failed, blocked in a read
    port,              \* baud rate of the open transport, 0 when none is open
    firmware_version,  \* self._firmware_version
    old_firmware_found,\* local of __init__
    hardware_version,  \* self._hardware_version (v2: local hardwareVersion)
    light_threshold,   \* self._light_threshold   (v2: self._lightThreshold)
    dark_threshold,    \* self._dark_threshold    (v2: self._darkThreshold)
    detect_mode,       \* self._detect_mode
    last,              \* the call in progress or last finished, with its effects
    rx,                \* unread bytes in the transport's input buffer, oldest first, each
                       \* [tag, val]: val the byte, tag "s" for a byte of an unsolicited
                       \* streaming sample and "r" for a byte of a reply
    wire,              \* bytes of the device's reply to 'V' that have not reached the
                       \* input buffer yet, oldest first
    streaming,         \* the device is pushing samples: the flag of the last 'S' command
    ypos,              \* MainWindow.ypos of self.qt_main
    y,                 \* MainWindow.y of self.qt_main: the indices of the plot buffer
                       \* that hold a sample (the others hold nan)
    bursts             \* bursts of samples the device has pushed in this stream_ui call

vars == <<driver, dev, pc, port, firmware_version, old_firmware_found,
          hardware_version, light_threshold, dark_threshold, detect_mode, last,
          rx, wire, streaming, ypos, y, bursts>>

\* the transport's input buffer, the bytes on their way to it and the live plot
link == <<rx, wire, streaming, ypos, y, bursts>>

----------------------------------------------------------------------------
(* Program constants *)

CURRENT_FIRMWARE == 4

HANDSHAKE_BYTE == 218

ActivationMargin == 1000

BaudInitial == 12000000

BaudFull == 480000000

BaudV2 == 115200

\* length of MainWindow.y
PlotLen == 2000

(* Bounds and input sets *)

MaxSamples == 2

\* bytes the input buffer holds at most
MaxRx == 2

\* bytes the device pushes at once while streaming
MaxBurst == 2

\* bursts the device pushes during one stream_ui call
MaxBursts == 1

\* bytes the input buffer holds at most in the live plot's specification
MaxPlotRx == 4001

\* bursts the device pushes there during one stream_ui call
MaxPlotBursts == 3

\* sizes of those bursts in bytes: half a sample, one sample, one and a half,
\* and one sample short of the plot's length
PlotBursts == {1, 2, 3, 2 * (PlotLen - 1)}

\* bytes of the samples the device streams
StreamByteValues == {255}

\* values handed to the v2 threshold setters, and int16 replies of the v2 device
V2Values == {-150, 7, 100}

V2Replies == {-32767 - 1, 32767}

\* values handed to the light_threshold setter: the boundaries of every
\* comparison in the setter, and values on both sides of them
UserValues == {0, 100, 999, 1000, 30000, 64535, 64536, 65535, 65536}

\* values handed to the dark_threshold setter, chosen in the same way
DarkValues == {-75, 0, 20000, 30000, 64535, 64536}

\* int32 values the device may send back after 'L' or 'D'
Replies == {65535}

\* values handed to the detect_mode setter
ModeValues == {-1, 0, 1, 2}

\* values handed to read_sensor
SampleCounts == {-5, 0} \cup (1..MaxSamples)

\* uint16 samples the device may send in answer to 'V' (the bytes of an
\* unsolicited sample are StreamByteValues)
SampleValues == {0, 65535}

\* the answers of the device to 'V' with the count n: n samples, all 0 but
\* the second, which is any of SampleValues
SampleAnswers(n) ==
    { m \in [1..n -> SampleValues] : \A i \in 1..n : i # 2 => m[i] = 0 }

\* uint16 samples a v2 device may send in answer to 'V'
V2SampleValues == {0, 65535}

\* bytes the device may answer to 'C', 'F' and '#'
HandshakeReplies == {HANDSHAKE_BYTE, 217}

FirmwareReplies == {3, 4, 5}

HardwareReplies == {1, 2, 3}

Devices ==
    \* fw_timing: the reply to 'F' arrives within the 0.25 s wait, after it,
    \* or never (firmware v1, which does not know 'F'; firmware is then 0)
    { d \in [handshake : HandshakeReplies,
             fw_timing : {"prompt", "late", "never"},
             firmware  : FirmwareReplies \cup {0},
             hardware  : HardwareReplies] :
        d.fw_timing = "never" <=> d.firmware = 0 }

----------------------------------------------------------------------------
(* The frame of a running call: the attributes it reads and writes, the    *)
(* effects so far, and the message of the exception raised ("" if none).   *)

Frame ==
    [light |-> light_threshold, dark |-> dark_threshold, mode |-> detect_mode,
     hw |-> hardware_version, port |-> port, ev |-> <<>>, err |-> "", src |-> <<>>]

Event(k, op, val, ty, p) == [k |-> k, op |-> op, val |-> val, ty |-> ty, port |-> p]

\* self.port.write(ord(op), 'uint8'[, val, ty])
Write(s, op, val, ty) ==
    [s EXCEPT !.ev = Append(@, Event("write", op, val, ty, s.port))]

\* value = self.port.read(1, ty)
Read(s, val, ty) ==
    [s EXCEPT !.ev = Append(@, Event("read", "", val, ty, s.port))]

\* raise Frame2TTLError(msg)
Raise(s, msg) == [s EXCEPT !.err = msg]

\* n bytes of streamed samples, each byte val
Bytes(val, n) == [i \in 1..n |-> [tag |-> "s", val |-> val]]

\* the bytes of one value of the given width as the device sends them in a
\* reply: two's complement, least significant byte first
Encode(value, width) ==
    [i \in 1..width |-> [tag |-> "r", val |-> (value \div (256 ^ (i - 1))) % 256]]

\* the bytes of a sequence of values of the given width
RECURSIVE EncodeAll(_, _)
EncodeAll(values, width) ==
    IF values = <<>> THEN <<>>
    ELSE Encode(Head(values), width) \o EncodeAll(Tail(values), width)

\* the value the transport decodes from the bytes of one item
Decode(b, ty) ==
    LET top == b[Len(b)].val
        signed == IF top >= 128 THEN top - 256 ELSE top
    IN  IF ty = "uint16" THEN b[1].val + 256 * b[2].val
        ELSE IF ty = "int16" THEN b[1].val + 256 * signed
        ELSE b[1].val + 256 * b[2].val + 65536 * b[3].val + 16777216 * signed

\* the count values the transport decodes from the first bytes of buf
DecodeAll(buf, count, ty) ==
    LET width == IF ty = "int32" THEN 4 ELSE 2
    IN  [i \in 1..count |-> Decode(SubSeq(buf, width * (i - 1) + 1, width * i), ty)]

\* self.port.read(count, ty) on the input buffer buf: the first nbytes bytes
\* are consumed, whatever they are
Consume(s, buf, nbytes) ==
    [s EXCEPT !.src = @ \o SubSeq(buf, 1, IF nbytes < Len(buf) THEN nbytes ELSE Len(buf))]

Unread(buf, nbytes) == SubSeq(buf, nbytes + 1, Len(buf))

\* self.Port.write(ord(op), 'uint8', (first, second), ty) of the v2 driver:
\* the second value of the pair follows the first in the same message
WritePair(s, op, first, second, ty) ==
    [s EXCEPT !.ev = @ \o << Event("write", op, first, ty, s.port),
                             Event("more", op, second, ty, s.port) >>]

AssignLight(s, value) ==
    [s EXCEPT !.light = value,
              !.ev = Append(@, Event("assign", "_light_threshold", value, "attr", s.port))]

AssignDark(s, value) ==
    [s EXCEPT !.dark = value,
              !.ev = Append(@, Event("assign", "_dark_threshold", value, "attr", s.port))]

AssignMode(s, value) ==
    [s EXCEPT !.mode = value,
              !.ev = Append(@, Event("assign", "_detect_mode", value, "attr", s.port))]

\* the setter with the attribute updated before the command is written
set_light_threshold_commit_first(s, value) ==
    IF value <= 0
    THEN Raise(s, "light_threshold must be a positive integer")
    ELSE IF s.mode = 0 /\ ~((value >= ActivationMargin) /\ (value <= 65535))
    THEN Raise(s, "in detect_mode 0, light_threshold must be in range")
    ELSE IF s.mode = 0 /\ value >= s.dark
    THEN Raise(s, "in detect_mode 0, light_threshold must be lower than dark_threshold")
    ELSE Write(AssignLight(s, value), "T", value, "int32")

\* @light_threshold.setter.  Every enumerated value is a Python int, so the
\* isinstance test never fires.
set_light_threshold(s, value) ==
    IF value <= 0
    THEN Raise(s, "light_threshold must be a positive integer")
    ELSE IF s.mode = 0 /\ ~((value >= ActivationMargin) /\ (value <= 65535))
    THEN Raise(s, "in detect_mode 0, light_threshold must be in range")
    ELSE IF s.mode = 0 /\ value >= s.dark
    THEN Raise(s, "in detect_mode 0, light_threshold must be lower than dark_threshold")
    ELSE AssignLight(Write(s, "T", value, "int32"), value)

\* @dark_threshold.setter
set_dark_threshold(s, value) ==
    IF s.mode = 1 /\ value >= 0
    THEN Raise(s, "dark_threshold must be a negative integer")
    ELSE IF s.mode = 0 /\ ~((value >= 0) /\ (value <= 65535 - ActivationMargin))
    THEN Raise(s, "in detect_mode 0, dark_threshold must be in range")
    ELSE IF s.mode = 0 /\ value <= s.light
    THEN Raise(s, "in detect_mode 0, dark_threshold must be higher than light_threshold")
    ELSE AssignDark(Write(s, "K", value, "int32"), value)

\* Frame2TTL._set_threshold_defaults; an exception in the first assignment
\* skips the second
set_threshold_defaults(s, mode) ==
    IF mode = 0
    THEN LET s1 == set_dark_threshold(s, 30000)
         IN  IF s1.err # "" THEN s1 ELSE set_light_threshold(s1, 20000)
    ELSE IF mode = 1
    THEN IF s.hw = 2
         THEN LET s1 == set_light_threshold(s, 100)
              IN  IF s1.err # "" THEN s1 ELSE set_dark_threshold(s1, -150)
         ELSE IF s.hw = 3
         THEN LET s1 == set_light_threshold(s, 75)
              IN  IF s1.err # "" THEN s1 ELSE set_dark_threshold(s1, -75)
         ELSE s
    ELSE s

\* the setter re-applying the defaults on every call
set_detect_mode_always_defaults(s, value) ==
    IF value \notin {0, 1}
    THEN Raise(s, "threshold_mode must be either 0 or 1")
    ELSE set_threshold_defaults(AssignMode(Write(s, "M", value, "uint8"), value), value)

\* @detect_mode.setter
set_detect_mode(s, value) ==
    LET original_mode == s.mode
    IN  IF value \notin {0, 1}
        THEN Raise(s, "threshold_mode must be either 0 or 1")
        ELSE LET s1 == AssignMode(Write(s, "M", value, "uint8"), value)
             IN  IF value # original_mode
                 THEN set_threshold_defaults(s1, value)
                 ELSE s1

\* read_sensor rejecting only negative counts
read_sensor_request_allow_zero(s, n_samples) ==
    IF n_samples < 0
    THEN Raise(s, "n_samples must be a positive integer")
    ELSE Write(s, "V", n_samples, "uint32")

\* read_sensor up to the blocking read
read_sensor_request(s, n_samples) ==
    IF n_samples <= 0
    THEN Raise(s, "n_samples must be a positive integer")
    ELSE Write(s, "V", n_samples, "uint32")

\* auto-calibration without the detect_mode test
auto_request_unguarded(s, opcode) == Write(s, opcode, 0, "none")

\* set_light_threshold_auto / set_dark_threshold_auto up to the blocking read
auto_request(s, opcode) ==
    IF s.mode = 0
    THEN Raise(s, "Automatic threshold detection is only available for detect_mode 1")
    ELSE Write(s, opcode, 0, "none")

----------------------------------------------------------------------------
(* The record of a call *)

Call(op, arg, st, s, ret) ==
    [op |-> op, arg |-> arg, st |-> st, err |-> s.err, ev |-> s.ev, ret |-> ret,
     src |-> s.src]

Outcome(s) == IF s.err # "" THEN "error" ELSE "ok"

\* a call on a ready v4 session that runs to its end without blocking
Finish(op, arg, s) ==
    /\ light_threshold' = s.light
    /\ dark_threshold' = s.dark
    /\ detect_mode' = s.mode
    /\ last' = Call(op, arg, Outcome(s), s, <<>>)
    /\ UNCHANGED <<driver, dev, pc, port, firmware_version, old_firmware_found,
                   hardware_version>>
    /\ UNCHANGED link

Ready == pc = "ready" /\ driver = "v4"

----------------------------------------------------------------------------
Init ==
    /\ driver \in {"v4", "v2"}
    /\ dev \in Devices
    /\ driver = "v2" => dev.fw_timing = "prompt" /\ dev.firmware = CURRENT_FIRMWARE
    /\ pc = "start"
    /\ port = 0
    \* attributes that do not exist before __init__ assigns them
    /\ firmware_version = 0
    /\ old_firmware_found = 0
    /\ hardware_version = 0
    /\ light_threshold = 0
    /\ dark_threshold = 0
    /\ detect_mode = 0
    /\ last = [op |-> "none", arg |-> 0, st |-> "ok", err |-> "", ev |-> <<>>, ret |-> <<>>,
               src |-> <<>>]
    /\ rx = <<>>
    /\ wire = <<>>
    /\ streaming = FALSE
    /\ ypos = 0
    /\ y = {}
    /\ bursts = 0

(* Frame2TTL.__init__ *)

\* lines 69-70: open the transport, write the handshake opcode
Frame2TTL_Open ==
    /\ driver = "v4" /\ pc = "start"
    /\ port' = BaudInitial
    /\ last' = [op |-> "connect", arg |-> 0, st |-> "pending", err |-> "", ret |-> <<>>,
                src |-> <<>>,
                ev |-> << Event("open", "", BaudInitial, "baud", BaudInitial),
                          Event("write", "C", 0, "none", BaudInitial) >>]
    /\ pc' = "handshake"
    /\ UNCHANGED <<driver, dev, firmware_version, old_firmware_found, hardware_version,
                   light_threshold, dark_threshold, detect_mode>>
    /\ UNCHANGED link

\* the handshake check accepting any non-zero reply
handshake_error_nonzero(reply) ==
    IF reply = 0 THEN "An incorrect handshake byte was received" ELSE ""

\* lines 72-73
handshake_error(reply) ==
    IF reply # HANDSHAKE_BYTE THEN "An incorrect handshake byte was received" ELSE ""

\* lines 71-76: read the handshake reply, check it, request the firmware version
Frame2TTL_Handshake ==
    /\ driver = "v4" /\ pc = "handshake"
    /\ LET reply == dev.handshake
           s0 == Read([Frame EXCEPT !.ev = last.ev], reply, "uint8")
           msg == handshake_error(reply)
       IN  IF msg # ""
           THEN /\ pc' = "failed"
                /\ last' = Call("connect", 0, "error", Raise(s0, msg), <<>>)
           ELSE /\ pc' = "fw_wait"
                /\ last' = Call("connect", 0, "pending", Write(s0, "F", 0, "none"), <<>>)
    /\ UNCHANGED <<driver, dev, port, firmware_version, old_firmware_found,
                   hardware_version, light_threshold, dark_threshold, detect_mode>>
    /\ UNCHANGED link

\* lines 77-80: sleep 0.25 s, then look whether a reply has arrived
Frame2TTL_FirmwareWait ==
    /\ driver = "v4" /\ pc = "fw_wait"
    /\ LET bytes_available == IF dev.fw_timing = "prompt" THEN 1 ELSE 0
       IN  old_firmware_found' = IF bytes_available = 0 THEN 1 ELSE 0
    /\ pc' = "fw_read"
    /\ UNCHANGED <<driver, dev, port, firmware_version, hardware_version,
                   light_threshold, dark_threshold, detect_mode, last>>
    /\ UNCHANGED link

\* the version check of the older driver generations: only "too old" fails
firmware_error_minimum_only(found, version) ==
    IF found = 1 \/ version < CURRENT_FIRMWARE
    THEN "Old Frame2TTL firmware detected"
    ELSE ""

\* lines 82-87
firmware_error(found, version) ==
    IF found = 1 \/ version < CURRENT_FIRMWARE
    THEN "Old Frame2TTL firmware detected"
    ELSE IF version > CURRENT_FIRMWARE
    THEN "Future Frame2TTL firmware detected"
    ELSE ""

\* lines 81-90: the blocking read of the firmware byte, the version checks,
\* the hardware version request
Frame2TTL_FirmwareRead ==
    /\ driver = "v4" /\ pc = "fw_read"
    /\ dev.fw_timing # "never"          \* port.read returns only when a byte is there
    /\ firmware_version' = dev.firmware
    /\ LET s0 == Read([Frame EXCEPT !.ev = last.ev], dev.firmware, "uint8")
           msg == firmware_error(old_firmware_found, dev.firmware)
       IN  IF msg # ""
           THEN /\ pc' = "failed"
                /\ last' = Call("connect", 0, "error", Raise(s0, msg), <<>>)
           ELSE /\ pc' = "hw_read"
                /\ last' = Call("connect", 0, "pending", Write(s0, "#", 0, "none"), <<>>)
    /\ UNCHANGED <<driver, dev, port, old_firmware_found, hardware_version,
                   light_threshold, dark_threshold, detect_mode>>
    /\ UNCHANGED link

\* __init__ that never opens the second transport
reopen_for_hardware_never(s, version) == s

\* line 95: hardware version 3 gets the transport reopened at full speed
reopen_for_hardware(s, version) ==
    IF version = 3
    THEN [s EXCEPT !.port = BaudFull,
                   !.ev = @ \o << Event("open", "", BaudFull, "baud", BaudFull) >>]
    ELSE s

\* lines 92-93: hardware version 3 releases the first transport
release_for_hardware(s, version) ==
    IF version = 3
    THEN [s EXCEPT !.port = 0,
                   !.ev = @ \o << Event("close", "", s.port, "baud", s.port) >>]
    ELSE s

\* lines 98-107: default detection parameters, detect_mode = 1, margin
init_defaults(s) ==
    LET s1 == AssignMode(AssignDark(AssignLight(s, 75), -75), 1)
        s2 == set_detect_mode(s1, 1)
    IN  IF s2.err # "" THEN s2 ELSE Write(s2, "G", ActivationMargin, "uint32")

\* lines 91-93, and lines 98-107 when the hardware version is not 3: read the
\* hardware version; version 3 releases the transport and waits (line 94), the
\* other versions finish __init__ at once
Frame2TTL_Hardware ==
    /\ driver = "v4" /\ pc = "hw_read"
    /\ hardware_version' = dev.hardware
    /\ LET s0 == Read([Frame EXCEPT !.ev = last.ev, !.hw = dev.hardware],
                      dev.hardware, "uint8")
           s1 == release_for_hardware(s0, dev.hardware)
           s2 == init_defaults(reopen_for_hardware(s1, dev.hardware))
       IN  IF dev.hardware = 3
           THEN /\ port' = s1.port
                /\ pc' = "reopen_wait"
                /\ last' = Call("connect", 0, "pending", s1, <<>>)
                /\ UNCHANGED <<light_threshold, dark_threshold, detect_mode>>
           ELSE /\ port' = s2.port
                /\ light_threshold' = s2.light
                /\ dark_threshold' = s2.dark
                /\ detect_mode' = s2.mode
                /\ pc' = IF s2.err # "" THEN "failed" ELSE "ready"
                /\ last' = Call("connect", 0, Outcome(s2), s2, <<>>)
    /\ UNCHANGED <<driver, dev, firmware_version, old_firmware_found>>
    /\ UNCHANGED link

\* lines 94-107: after the 0.25 s wait, reopen the transport at full speed and
\* finish __init__
Frame2TTL_Reopen ==
    /\ driver = "v4" /\ pc = "reopen_wait"
    /\ LET s0 == [Frame EXCEPT !.ev = last.ev, !.hw = hardware_version]
           s1 == init_defaults(reopen_for_hardware(s0, hardware_version))
       IN  /\ port' = s1.port
           /\ light_threshold' = s1.light
           /\ dark_threshold' = s1.dark
           /\ detect_mode' = s1.mode
           /\ pc' = IF s1.err # "" THEN "failed" ELSE "ready"
           /\ last' = Call("connect", 0, Outcome(s1), s1, <<>>)
    /\ UNCHANGED <<driver, dev, firmware_version, old_firmware_found, hardware_version>>
    /\ UNCHANGED link

(* Frame2TTLv2.__init__ *)

\* lines 22-23
Frame2TTLv2_Open ==
    /\ driver = "v2" /\ pc = "start"
    /\ port' = BaudV2
    /\ last' = [op |-> "connect", arg |-> 0, st |-> "pending", err |-> "", ret |-> <<>>,
                src |-> <<>>,
                ev |-> << Event("open", "", BaudV2, "baud", BaudV2),
                          Event("write", "C", 0, "none", BaudV2) >>]
    /\ pc' = "handshake"
    /\ UNCHANGED <<driver, dev, firmware_version, old_firmware_found, hardware_version,
                   light_threshold, dark_threshold, detect_mode>>
    /\ UNCHANGED link

\* lines 25-26
v2_handshake_error(handshakeByte) ==
    IF handshakeByte # 218 THEN "Frame2TTL not detected on port" ELSE ""

\* lines 24-27
Frame2TTLv2_Handshake ==
    /\ driver = "v2" /\ pc = "handshake"
    /\ LET handshakeByte == dev.handshake
           s0 == Read([Frame EXCEPT !.ev = last.ev], handshakeByte, "uint8")
           msg == v2_handshake_error(handshakeByte)
       IN  IF msg # ""
           THEN /\ pc' = "failed"
                /\ last' = Call("connect", 0, "error", Raise(s0, msg), <<>>)
           ELSE /\ pc' = "hw_read"
                /\ last' = Call("connect", 0, "pending", Write(s0, "#", 0, "none"), <<>>)
    /\ UNCHANGED <<driver, dev, port, firmware_version, old_firmware_found,
                   hardware_version, light_threshold, dark_threshold, detect_mode>>
    /\ UNCHANGED link

\* lines 28-32
Frame2TTLv2_Hardware ==
    /\ driver = "v2" /\ pc = "hw_read"
    /\ hardware_version' = dev.hardware
    /\ LET s0 == Read([Frame EXCEPT !.ev = last.ev], dev.hardware, "uint8")
       IN  IF dev.hardware # 2
           THEN /\ pc' = "failed"
                /\ last' = Call("connect", 0, "error",
                                Raise(s0, "Frame2TTLv2 requires hardware version 2"), <<>>)
                /\ UNCHANGED <<light_threshold, dark_threshold>>
           ELSE /\ pc' = "ready"
                /\ light_threshold' = 100
                /\ dark_threshold' = -150
                /\ last' = Call("connect", 0, "ok", AssignDark(AssignLight(s0, 100), -150), <<>>)
    /\ UNCHANGED <<driver, dev, port, firmware_version, old_firmware_found, detect_mode>>
    /\ UNCHANGED link

(* Calls on a connected Frame2TTLv2 *)

ReadyV2 == pc = "ready" /\ driver = "v2"

\* @lightThreshold.setter, lines 38-41
lightThreshold(s, value) ==
    AssignLight(WritePair(s, "T", value, s.dark, "int16"), value)

\* the setter sending the default light threshold with the new dark threshold
darkThreshold_default_light(s, value) ==
    AssignDark(WritePair(s, "T", 100, value, "int16"), value)

\* @darkThreshold.setter, lines 47-50
darkThreshold(s, value) ==
    AssignDark(WritePair(s, "T", s.light, value, "int16"), value)

\* F.lightThreshold = value
Frame2TTLv2_lightThreshold ==
    /\ ReadyV2
    /\ \E value \in V2Values :
         Finish("lightThreshold", value, lightThreshold(Frame, value))

\* F.darkThreshold = value
Frame2TTLv2_darkThreshold ==
    /\ ReadyV2
    /\ \E value \in V2Values :
         Finish("darkThreshold", value, darkThreshold(Frame, value))

\* F.setLightThreshold_Auto() up to the blocking read (lines 53-54)
Frame2TTLv2_setLightThreshold_Auto ==
    /\ ReadyV2
    /\ last' = Call("setLightThreshold_Auto", 0, "pending", Write(Frame, "L", 0, "none"), <<>>)
    /\ pc' = "auto_light"
    /\ UNCHANGED <<driver, dev, port, firmware_version, old_firmware_found,
                   hardware_version, light_threshold, dark_threshold, detect_mode>>
    /\ UNCHANGED link

\* lines 55-56: the int16 reply is stored through the lightThreshold setter
Frame2TTLv2_setLightThreshold_AutoReturn ==
    /\ driver = "v2" /\ pc = "auto_light"
    /\ \E newThreshold \in V2Replies :
         LET s0 == [Frame EXCEPT !.ev = Append(last.ev,
                        Event("device", "L", newThreshold, "int16", port))]
             s == lightThreshold(Read(s0, newThreshold, "int16"), newThreshold)
         IN  /\ light_threshold' = s.light
             /\ dark_threshold' = s.dark
             /\ last' = Call("setLightThreshold_Auto", 0, "ok", s, <<>>)
    /\ pc' = "ready"
    /\ UNCHANGED <<driver, dev, port, firmware_version, old_firmware_found,
                   hardware_version, detect_mode>>
    /\ UNCHANGED link

\* F.setDarkThreshold_Auto() up to the blocking read (lines 59-60)
Frame2TTLv2_setDarkThreshold_Auto ==
    /\ ReadyV2
    /\ last' = Call("setDarkThreshold_Auto", 0, "pending", Write(Frame, "D", 0, "none"), <<>>)
    /\ pc' = "auto_dark"
    /\ UNCHANGED <<driver, dev, port, firmware_version, old_firmware_found,
                   hardware_version, light_threshold, dark_threshold, detect_mode>>
    /\ UNCHANGED link

\* lines 61-62: the int16 reply is stored through the darkThreshold setter
Frame2TTLv2_setDarkThreshold_AutoReturn ==
    /\ driver = "v2" /\ pc = "auto_dark"
    /\ \E newThreshold \in V2Replies :
         LET s0 == [Frame EXCEPT !.ev = Append(last.ev,
                        Event("device", "D", newThreshold, "int16", port))]
             s == darkThreshold(Read(s0, newThreshold, "int16"), newThreshold)
         IN  /\ light_threshold' = s.light
             /\ dark_threshold' = s.dark
             /\ last' = Call("setDarkThreshold_Auto", 0, "ok", s, <<>>)
    /\ pc' = "ready"
    /\ UNCHANGED <<driver, dev, port, firmware_version, old_firmware_found,
                   hardware_version, detect_mode>>
    /\ UNCHANGED link

\* lines 65-66 of read_sensor up to the blocking read; nSamples is not tested
v2_read_sensor_request(s, nSamples) == Write(s, "V", nSamples, "uint32")

RECURSIVE Sum(_)
Sum(values) == IF values = <<>> THEN 0 ELSE Head(values) + Sum(Tail(values))

\* lines 73-82 of measure_photons: << sum, max_value, min_value, nsamples >> of
\* the samples, mean_value being sum / nsamples; the standard deviation and
\* its error are floating-point values and are left out
measure_photons(sensorData) ==
    << Sum(sensorData),
       CHOOSE v \in { sensorData[i] : i \in DOMAIN sensorData } :
           \A i \in DOMAIN sensorData : sensorData[i] <= v,
       CHOOSE v \in { sensorData[i] : i \in DOMAIN sensorData } :
           \A i \in DOMAIN sensorData : sensorData[i] >= v,
       Len(sensorData) >>

\* F.read_sensor(nSamples) up to the blocking read (line 66); the device
\* sends nSamples uint16 samples in answer to 'V'
Frame2TTLv2_read_sensor ==
    /\ ReadyV2
    /\ \E nSamples \in 1..MaxSamples :
         /\ last' = Call("read_sensor", nSamples, "pending",
                         v2_read_sensor_request(Frame, nSamples), <<>>)
         /\ \E measurements \in [1..nSamples -> V2SampleValues] :
              wire' = wire \o EncodeAll(measurements, 2)
    /\ pc' = "read_sensor"
    /\ UNCHANGED <<driver, dev, port, firmware_version, old_firmware_found,
                   hardware_version, light_threshold, dark_threshold, detect_mode,
                   rx, streaming, ypos, y, bursts>>

\* F.measure_photons(num_samples) up to the blocking read of its read_sensor call
Frame2TTLv2_measure_photons ==
    /\ ReadyV2
    /\ \E num_samples \in 1..MaxSamples :
         /\ last' = Call("measure_photons", num_samples, "pending",
                         v2_read_sensor_request(Frame, num_samples), <<>>)
         /\ \E measurements \in [1..num_samples -> V2SampleValues] :
              wire' = wire \o EncodeAll(measurements, 2)
    /\ pc' = "read_sensor"
    /\ UNCHANGED <<driver, dev, port, firmware_version, old_firmware_found,
                   hardware_version, light_threshold, dark_threshold, detect_mode,
                   rx, streaming, ypos, y, bursts>>

\* lines 66-67: the read returns once 2 * nSamples bytes are in the input
\* buffer; the samples are returned, or summarised by measure_photons
Frame2TTLv2_read_sensorReturn ==
    /\ driver = "v2" /\ pc = "read_sensor"
    /\ LET nSamples == last.arg
           s == Consume(Read([Frame EXCEPT !.ev = last.ev], nSamples, "uint16"),
                        rx, 2 * nSamples)
           value == DecodeAll(rx, nSamples, "uint16")
       IN  /\ Len(rx) >= 2 * nSamples
           /\ last' = Call(last.op, nSamples, "ok", s,
                           IF last.op = "measure_photons"
                           THEN measure_photons(value) ELSE value)
           /\ rx' = Unread(rx, 2 * nSamples)
    /\ pc' = "ready"
    /\ UNCHANGED <<driver, dev, port, firmware_version, old_firmware_found,
                   hardware_version, light_threshold, dark_threshold, detect_mode,
                   wire, streaming, ypos, y, bursts>>

(* Calls on a connected Frame2TTL *)

\* F.light_threshold = value
LightThresholdSetter ==
    /\ Ready
    /\ \E value \in UserValues :
         Finish("light_threshold", value, set_light_threshold(Frame, value))

\* F.dark_threshold = value
DarkThresholdSetter ==
    /\ Ready
    /\ \E value \in DarkValues :
         Finish("dark_threshold", value, set_dark_threshold(Frame, value))

\* F.detect_mode = value
DetectModeSetter ==
    /\ Ready
    /\ \E value \in ModeValues :
         Finish("detect_mode", value, set_detect_mode(Frame, value))

\* the samples the device sends in answer to 'V', recorded in the effects of
\* the call that asked for them, in the order they are sent
device_answers(s, measurements) ==
    [s EXCEPT !.ev = @ \o [i \in DOMAIN measurements |->
                              Event("device", "V", measurements[i], "uint16", s.port)]]

\* F.read_sensor(n_samples) up to the blocking read (lines 177-179); the
\* device sends n_samples uint16 samples in answer to 'V'
ReadSensorCall ==
    /\ Ready
    /\ \E n_samples \in SampleCounts :
         LET s == read_sensor_request(Frame, n_samples)
         IN  /\ pc' = IF s.err # "" THEN pc ELSE "read_sensor"
             /\ IF s.err # ""
                THEN /\ last' = Call("read_sensor", n_samples, "error", s, <<>>)
                     /\ wire' = wire
                ELSE \E measurements \in SampleAnswers(n_samples) :
                       /\ last' = Call("read_sensor", n_samples, "pending",
                                       device_answers(s, measurements), <<>>)
                       /\ wire' = wire \o EncodeAll(measurements, 2)
    /\ UNCHANGED <<driver, dev, port, firmware_version, old_firmware_found,
                   hardware_version, light_threshold, dark_threshold, detect_mode,
                   rx, streaming, ypos, y, bursts>>

\* the bytes the device has sent reach the transport's input buffer, behind
\* the bytes already unread
DeviceReplyArrives ==
    /\ wire # <<>>
    /\ rx' = rx \o wire
    /\ wire' = <<>>
    /\ UNCHANGED <<driver, dev, pc, port, firmware_version, old_firmware_found,
                   hardware_version, light_threshold, dark_threshold, detect_mode, last,
                   streaming, ypos, y, bursts>>

\* lines 180-181: the read, which follows the write of 'V' without a wait,
\* returns once 2 * n_samples bytes are in the input buffer, whether they are
\* the device's answer or bytes that were unread before; it takes the first
\* 2 * n_samples bytes and returns the values decoded from them (the read
\* effect records the count asked for, last.ret the values)
ReadSensorReturn ==
    /\ driver = "v4" /\ pc = "read_sensor"
    /\ LET n_samples == last.arg
           s == Consume(Read([Frame EXCEPT !.ev = last.ev], n_samples, "uint16"),
                        rx, 2 * n_samples)
       IN  /\ Len(rx) >= 2 * n_samples
           /\ last' = Call("read_sensor", n_samples, "ok", s,
                           DecodeAll(rx, n_samples, "uint16"))
           /\ rx' = Unread(rx, 2 * n_samples)
    /\ pc' = "ready"
    /\ UNCHANGED <<driver, dev, port, firmware_version, old_firmware_found,
                   hardware_version, light_threshold, dark_threshold, detect_mode,
                   wire, streaming, ypos, y, bursts>>

\* F.set_light_threshold_auto() up to the blocking read (lines 169-172)
SetLightThresholdAutoCall ==
    /\ Ready
    /\ LET s == auto_request(Frame, "L")
       IN  /\ last' = Call("set_light_threshold_auto", 0,
                           IF s.err # "" THEN "error" ELSE "pending", s, <<>>)
           /\ pc' = IF s.err # "" THEN pc ELSE "auto_light"
    /\ UNCHANGED <<driver, dev, port, firmware_version, old_firmware_found,
                   hardware_version, light_threshold, dark_threshold, detect_mode>>
    /\ UNCHANGED link

\* line 173, after the 3 s wait of line 172: by then the device has sent its
\* int32 reply, which queues behind the bytes already unread or on their way;
\* the read takes the first 4 bytes of the buffer and the value decoded from
\* them is stored.
SetLightThresholdAutoReturn ==
    /\ driver = "v4" /\ pc = "auto_light"
    /\ \E reply \in Replies :
         LET buf == rx \o wire \o Encode(reply, 4)
             value == Decode(SubSeq(buf, 1, 4), "int32")
             s0 == [Frame EXCEPT !.ev = Append(last.ev, Event("device", "L", reply, "int32", port))]
             s == AssignLight(Consume(Read(s0, value, "int32"), buf, 4), value)
         IN  /\ light_threshold' = s.light
             /\ last' = Call("set_light_threshold_auto", 0, "ok", s, <<>>)
             /\ rx' = Unread(buf, 4)
    /\ wire' = <<>>
    /\ pc' = "ready"
    /\ UNCHANGED <<driver, dev, port, firmware_version, old_firmware_found,
                   hardware_version, dark_threshold, detect_mode, streaming, ypos, y, bursts>>

\* F.set_dark_threshold_auto() up to the blocking read (lines 161-164)
SetDarkThresholdAutoCall ==
    /\ Ready
    /\ LET s == auto_request(Frame, "D")
       IN  /\ last' = Call("set_dark_threshold_auto", 0,
                           IF s.err # "" THEN "error" ELSE "pending", s, <<>>)
           /\ pc' = IF s.err # "" THEN pc ELSE "auto_dark"
    /\ UNCHANGED <<driver, dev, port, firmware_version, old_firmware_found,
                   hardware_version, light_threshold, dark_threshold, detect_mode>>
    /\ UNCHANGED link

\* line 165, after the 3 s wait of line 164: by then the device has sent its
\* int32 reply, which queues behind the bytes already unread or on their way;
\* the read takes the first 4 bytes of the buffer and the value decoded from
\* them is stored.
SetDarkThresholdAutoReturn ==
    /\ driver = "v4" /\ pc = "auto_dark"
    /\ \E reply \in Replies :
         LET buf == rx \o wire \o Encode(reply, 4)
             value == Decode(SubSeq(buf, 1, 4), "int32")
             s0 == [Frame EXCEPT !.ev = Append(last.ev, Event("device", "D", reply, "int32", port))]
             s == AssignDark(Consume(Read(s0, value, "int32"), buf, 4), value)
         IN  /\ dark_threshold' = s.dark
             /\ last' = Call("set_dark_threshold_auto", 0, "ok", s, <<>>)
             /\ rx' = Unread(buf, 4)
    /\ wire' = <<>>
    /\ pc' = "ready"
    /\ UNCHANGED <<driver, dev, port, firmware_version, old_firmware_found,
                   hardware_version, light_threshold, detect_mode, streaming, ypos, y, bursts>>

(* stream_ui and the live plot *)

\* MainWindow.__init__, line 280: the last statement enables streaming
main_window_init(s) == Write(s, "S", 1, "uint8")

\* closeEvent accepting the event without a command
close_event_silent(s) == s

\* MainWindow.closeEvent, line 296
close_event(s) == Write(s, "S", 0, "uint8")

\* what the device does after the 'S' commands in ev: the flag of the last one
stream_flag(old, ev) ==
    LET idx == { i \in DOMAIN ev : ev[i].k = "write" /\ ev[i].op = "S" }
    IN  IF idx = {} THEN old
        ELSE ev[CHOOSE i \in idx : \A j \in idx : j <= i].val = 1

\* update_plot_data, lines 283-285: the number of samples to read, 0 for no read
plot_request_round_up(bytes_available) ==
    IF bytes_available > 1 THEN (bytes_available + 1) \div 2 ELSE 0

\* update_plot_data, lines 284-286: the number of samples asked for, 0 for no read
plot_request(bytes_available) ==
    IF bytes_available > 1 THEN bytes_available \div 2 ELSE 0

\* the position wrapping only when the batch passes the end
plot_position_past_end(pos, n_samples) ==
    IF pos + n_samples > PlotLen THEN 0 ELSE pos + n_samples

\* update_plot_data, lines 287-292
plot_position(pos, n_samples) ==
    IF pos + n_samples >= PlotLen THEN 0 ELSE pos + n_samples

\* update_plot_data, lines 287-291: the buffer is cleared, or the samples are
\* written to y[pos : pos + n_samples]
plot_buffer(filled, pos, n_samples) ==
    IF pos + n_samples >= PlotLen THEN {} ELSE filled \cup (pos .. pos + n_samples - 1)

\* F.stream_ui() up to qt_app.exec_(): a new MainWindow, whose __init__ sets
\* ypos = 0, starts the timer and enables streaming
StreamUI ==
    /\ Ready
    /\ LET s == main_window_init(Frame)
       IN  /\ last' = Call("stream_ui", 0, "pending", s, <<>>)
           /\ streaming' = stream_flag(streaming, s.ev)
    /\ ypos' = 0
    /\ y' = {}
    /\ bursts' = 0
    /\ pc' = "streaming"
    /\ UNCHANGED <<driver, dev, port, firmware_version, old_firmware_found,
                   hardware_version, light_threshold, dark_threshold, detect_mode,
                   rx, wire>>

\* the device pushes bytes of unsolicited samples while streaming is enabled:
\* a burst of one of the given sizes, which reaches the input buffer after
\* the bytes the device has sent before
device_streams(sizes, max_bursts, max_rx) ==
    /\ streaming
    /\ wire = <<>>
    /\ bursts < max_bursts
    /\ \E n \in sizes, val \in StreamByteValues :
         /\ Len(rx) + n <= max_rx
         /\ rx' = rx \o Bytes(val, n)
    /\ bursts' = bursts + 1
    /\ UNCHANGED <<driver, dev, pc, port, firmware_version, old_firmware_found,
                   hardware_version, light_threshold, dark_threshold, detect_mode, last,
                   wire, streaming, ypos, y>>

DeviceStreams == device_streams(1..MaxBurst, MaxBursts, MaxRx)

\* the same with bursts up to the length of the plot
DeviceStreamsBulk == device_streams(PlotBursts, MaxPlotBursts, MaxPlotRx)

\* MainWindow.update_plot_data, on the 25 ms timer inside qt_app.exec_()
UpdatePlotData ==
    /\ driver = "v4" /\ pc \in {"streaming", "closing"}
    /\ LET bytes_available == Len(rx)
           n_samples == plot_request(bytes_available)
       IN  IF n_samples > 0
           THEN /\ last' = Call("update_plot_data", bytes_available, "ok",
                                Consume(Read(Frame, n_samples, "uint16"), rx, 2 * n_samples),
                                <<>>)
                /\ rx' = Unread(rx, IF 2 * n_samples < Len(rx) THEN 2 * n_samples ELSE Len(rx))
                /\ ypos' = plot_position(ypos, n_samples)
                /\ y' = plot_buffer(y, ypos, n_samples)
           ELSE /\ last' = Call("update_plot_data", bytes_available, "ok", Frame, <<>>)
                /\ UNCHANGED <<rx, ypos, y>>
    /\ UNCHANGED <<driver, dev, pc, port, firmware_version, old_firmware_found,
                   hardware_version, light_threshold, dark_threshold, detect_mode,
                   wire, streaming, bursts>>

\* MainWindow.closeEvent: the window is closed; the handler returns to the
\* event loop, where the timer is still running
CloseEvent ==
    /\ driver = "v4" /\ pc = "streaming"
    /\ LET s == close_event(Frame)
       IN  /\ last' = Call("closeEvent", 0, "ok", s, <<>>)
           /\ streaming' = stream_flag(streaming, s.ev)
    /\ bursts' = 0
    /\ pc' = "closing"
    /\ UNCHANGED <<driver, dev, port, firmware_version, old_firmware_found,
                   hardware_version, light_threshold, dark_threshold, detect_mode,
                   rx, wire, ypos, y>>

\* line 193: qt_app.exec_() returns after the window was closed, and with it
\* stream_ui
StreamUIReturn ==
    /\ driver = "v4" /\ pc = "closing"
    /\ pc' = "ready"
    /\ last' = Call("stream_ui", 0, "ok", Frame, <<>>)
    /\ UNCHANGED <<driver, dev, port, firmware_version, old_firmware_found,
                   hardware_version, light_threshold, dark_threshold, detect_mode>>
    /\ UNCHANGED link

\* del F, or the object of a failed __init__ being dropped: Frame2TTL.__del__
\* drops the transport, Frame2TTLv2.__del__ closes it
Del ==
    /\ pc \in {"ready", "failed"}
    /\ port' = 0
    /\ pc' = "deleted"
    /\ last' = Call("__del__", 0, "ok",
                    [Frame EXCEPT !.ev = << Event("close", "", port, "baud", port) >>], <<>>)
    /\ rx' = <<>>
    /\ wire' = <<>>
    /\ UNCHANGED <<driver, dev, firmware_version, old_firmware_found, hardware_version,
                   light_threshold, dark_threshold, detect_mode, streaming, ypos, y, bursts>>

Next ==
    \/ Frame2TTL_Open
    \/ Frame2TTL_Handshake
    \/ Frame2TTL_FirmwareWait
    \/ Frame2TTL_FirmwareRead
    \/ Frame2TTL_Hardware
    \/ Frame2TTL_Reopen
    \/ Frame2TTLv2_Open
    \/ Frame2TTLv2_Handshake
    \/ Frame2TTLv2_Hardware
    \/ Frame2TTLv2_lightThreshold
    \/ Frame2TTLv2_darkThreshold
    \/ Frame2TTLv2_setLightThreshold_Auto
    \/ Frame2TTLv2_setLightThreshold_AutoReturn
    \/ Frame2TTLv2_setDarkThreshold_Auto
    \/ Frame2TTLv2_setDarkThreshold_AutoReturn
    \/ Frame2TTLv2_read_sensor
    \/ Frame2TTLv2_measure_photons
    \/ Frame2TTLv2_read_sensorReturn
    \/ LightThresholdSetter
    \/ DarkThresholdSetter
    \/ DetectModeSetter
    \/ ReadSensorCall
    \/ DeviceReplyArrives
    \/ ReadSensorReturn
    \/ SetLightThresholdAutoCall
    \/ SetLightThresholdAutoReturn
    \/ SetDarkThresholdAutoCall
    \/ SetDarkThresholdAutoReturn
    \/ StreamUI
    \/ DeviceStreams
    \/ UpdatePlotData
    \/ CloseEvent
    \/ StreamUIReturn
    \/ Del

Spec == Init /\ [][Next]_vars

\* one stream_ui call of a Frame2TTL up to the return of qt_app.exec_(), the
\* device pushing bursts up to the length of the plot
PlotNext ==
    \/ Frame2TTL_Open
    \/ Frame2TTL_Handshake
    \/ Frame2TTL_FirmwareWait
    \/ Frame2TTL_FirmwareRead
    \/ Frame2TTL_Hardware
    \/ Frame2TTL_Reopen
    \/ StreamUI
    \/ DeviceStreamsBulk
    \/ UpdatePlotData
    \/ CloseEvent

PlotSpec == Init /\ [][PlotNext]_vars

----------------------------------------------------------------------------
(* Properties *)

WritesOf(ev) == SelectSeq(ev, LAMBDA e : e.k = "write")

\* a Frame2TTL object exists: __init__ has returned
Connected ==
    driver = "v4" /\ pc \in {"ready", "auto_light", "auto_dark", "read_sensor",
                              "streaming", "closing"}

\* a step that makes a call on a ready session
Called == Ready /\ last' # last

InAmplitudeRange(value) ==
    value >= ActivationMargin /\ value <= 65535 - ActivationMargin

\* C1: in every state of a connected v4 session the stored thresholds
\* satisfy the constraints of the current detect_mode: mode 1, light > 0 and
\* dark < 0; mode 0, both within [margin, 65535 - margin] and light < dark.
C1_ThresholdInvariant ==
    Connected =>
        /\ detect_mode = 1 => (light_threshold > 0 /\ dark_threshold < 0)
        /\ detect_mode = 0 => /\ InAmplitudeRange(light_threshold)
                              /\ InAmplitudeRange(dark_threshold)
                              /\ light_threshold < dark_threshold

\* C2: a detect_mode = 0 call made in derivative mode leaves the session in
\* detect_mode 0 with light_threshold 20000 and dark_threshold 30000,
\* whatever the thresholds were.
C2_SwitchToAmplitudeResets ==
    [][ (Called /\ detect_mode = 1 /\ last'.op = "detect_mode" /\ last'.arg = 0)
            => (detect_mode' = 0 /\ light_threshold' = 20000 /\ dark_threshold' = 30000)
      ]_vars

\* C3: a detect_mode = 1 call made in amplitude mode leaves the session in
\* detect_mode 1 with the derivative defaults of its hardware version
\* (2: 100/-150, 3: 75/-75), light > 0 and dark < 0, for every hardware
\* version a connected session can have.
C3_SwitchToDerivativeRestores ==
    [][ (Called /\ detect_mode = 0 /\ last'.op = "detect_mode" /\ last'.arg = 1)
            => /\ detect_mode' = 1
               /\ light_threshold' > 0
               /\ dark_threshold' < 0
               /\ hardware_version = 2 => (light_threshold' = 100 /\ dark_threshold' = -150)
               /\ hardware_version = 3 => (light_threshold' = 75 /\ dark_threshold' = -75)
      ]_vars

\* C4: right after __init__ returns, detect_mode is 1 and the thresholds are
\* the derivative defaults of the reported hardware version (2: 100/-150,
\* 3: 75/-75).
C4_ConnectAppliesDefaults ==
    (driver = "v4" /\ pc = "ready" /\ last.op = "connect") =>
        /\ detect_mode = 1
        /\ hardware_version = 2 => (light_threshold = 100 /\ dark_threshold = -150)
        /\ hardware_version = 3 => (light_threshold = 75 /\ dark_threshold = -75)

\* C5: in amplitude mode a threshold setter call whose value would break the
\* amplitude invariant (light >= dark, or the value outside
\* [margin, 65535 - margin]) raises, writes nothing and leaves both
\* thresholds as they were.
C5_AmplitudeRejects ==
    [][ /\ (Called /\ detect_mode = 0 /\ last'.op = "light_threshold"
              /\ (last'.arg >= dark_threshold \/ ~InAmplitudeRange(last'.arg)))
            => (last'.st = "error" /\ last'.ev = <<>>
                /\ UNCHANGED <<light_threshold, dark_threshold>>)
        /\ (Called /\ detect_mode = 0 /\ last'.op = "dark_threshold"
              /\ (last'.arg <= light_threshold \/ ~InAmplitudeRange(last'.arg)))
            => (last'.st = "error" /\ last'.ev = <<>>
                /\ UNCHANGED <<light_threshold, dark_threshold>>)
      ]_vars

\* a value the threshold rules of the current detect_mode admit
ValidLight(value) ==
    IF detect_mode = 1 THEN value > 0
    ELSE InAmplitudeRange(value) /\ value < dark_threshold

ValidDark(value) ==
    IF detect_mode = 1 THEN value < 0
    ELSE InAmplitudeRange(value) /\ value > light_threshold

\* C6: a threshold setter called with a value that passes validation
\* succeeds; a setter that succeeds has written exactly one command, 'T'
\* (light) or 'K' (dark) with that value as int32, before assigning the
\* attribute; afterwards the threshold reads back as the value, and the
\* other threshold and detect_mode are as before.
C6_ThresholdRoundTrip ==
    [][ /\ (Called /\ last'.op = "light_threshold") =>
              /\ ValidLight(last'.arg) => last'.st = "ok"
              /\ last'.st = "ok" =>
                    /\ last'.ev = << Event("write", "T", last'.arg, "int32", port),
                                     Event("assign", "_light_threshold", last'.arg, "attr", port) >>
                    /\ light_threshold' = last'.arg
                    /\ UNCHANGED <<dark_threshold, detect_mode>>
        /\ (Called /\ last'.op = "dark_threshold") =>
              /\ ValidDark(last'.arg) => last'.st = "ok"
              /\ last'.st = "ok" =>
                    /\ last'.ev = << Event("write", "K", last'.arg, "int32", port),
                                     Event("assign", "_dark_threshold", last'.arg, "attr", port) >>
                    /\ dark_threshold' = last'.arg
                    /\ UNCHANGED <<light_threshold, detect_mode>>
      ]_vars

\* a derivative-mode session on which F.light_threshold = 100 has just succeeded
C6_Witness ==
    /\ Ready /\ detect_mode = 1
    /\ last.op = "light_threshold" /\ last.arg = 100 /\ last.st = "ok"
    /\ light_threshold = 100
    /\ WritesOf(last.ev) = << Event("write", "T", 100, "int32", port) >>

SessionOps ==
    {"light_threshold", "dark_threshold", "detect_mode", "read_sensor",
     "set_light_threshold_auto", "set_dark_threshold_auto"}

\* C7: a call on a connected session that ends by raising has written
\* nothing to the device and has changed neither detect_mode nor either
\* threshold.
C7_NoErrorAfterTransmission ==
    [][ (driver = "v4" /\ last'.op \in SessionOps /\ last'.st = "error")
            => /\ WritesOf(last'.ev) = <<>>
               /\ UNCHANGED <<detect_mode, light_threshold, dark_threshold>>
      ]_vars

\* C8: with a handshake reply other than 218, in either driver, connect
\* fails: the session never gets past the handshake, __init__ ends with an
\* error, and 'C' is the only command ever written (the object of the failed
\* connect may then be dropped).
C8_HandshakeGate ==
    dev.handshake # 218 =>
        /\ pc \in {"start", "handshake", "failed", "deleted"}
        /\ pc = "failed" => (last.op = "connect" /\ last.st = "error" /\ last.err # "")
        /\ \A i \in DOMAIN last.ev : last.ev[i].k = "write" => last.ev[i].op = "C"

C8_Witness ==
    /\ driver = "v4" /\ dev.handshake = 217 /\ pc = "failed"
    /\ last.err = "An incorrect handshake byte was received"
    /\ WritesOf(last.ev) = << Event("write", "C", 0, "none", BaudInitial) >>

\* C9: when no reply to 'F' has arrived within the wait, connect goes on to
\* fail with the version error: it is not left blocked in the read of the
\* firmware byte.
C9_LegacyFirmwareTerminates ==
    (driver = "v4" /\ pc = "fw_read" /\ old_firmware_found = 1)
        => ENABLED Frame2TTL_FirmwareRead

\* C10: connect succeeds only with firmware version 4; with any other
\* reported version it fails with a version error (old below 4, future
\* above 4) and neither '#' nor 'M' nor 'G' is ever written (the object of
\* the failed connect may then be dropped).
C10_FirmwareGate ==
    (driver = "v4" /\ dev.fw_timing # "never" /\ dev.firmware # 4) =>
        /\ pc \in {"start", "handshake", "fw_wait", "fw_read", "failed", "deleted"}
        /\ (pc = "failed" /\ dev.handshake = 218) =>
              /\ last.st = "error"
              /\ dev.firmware < 4 => last.err = "Old Frame2TTL firmware detected"
              /\ dev.firmware > 4 /\ dev.fw_timing = "prompt"
                    => last.err = "Future Frame2TTL firmware detected"
        /\ \A i \in DOMAIN last.ev :
              last.ev[i].k = "write" => last.ev[i].op \notin {"#", "M", "G"}

C10_Witness ==
    /\ driver = "v4" /\ dev.firmware = 5 /\ dev.fw_timing = "prompt" /\ pc = "failed"
    /\ firmware_version = 5
    /\ last.err = "Future Frame2TTL firmware detected"
    /\ WritesOf(last.ev) = << Event("write", "C", 0, "none", BaudInitial),
                              Event("write", "F", 0, "none", BaudInitial) >>

\* C11: set_light_threshold_auto() and set_dark_threshold_auto() called in
\* detect_mode 0 raise, write nothing, read nothing, and leave thresholds,
\* detect_mode and the input buffer as they were.
C11_AutoRejectedInAmplitude ==
    [][ (Called /\ detect_mode = 0
           /\ last'.op \in {"set_light_threshold_auto", "set_dark_threshold_auto"})
            => /\ last'.st = "error"
               /\ last'.err = "Automatic threshold detection is only available for detect_mode 1"
               /\ last'.ev = <<>>
               /\ last'.src = <<>>
               /\ pc' = "ready"
               /\ UNCHANGED <<light_threshold, dark_threshold, detect_mode, rx>>
      ]_vars

\* an amplitude-mode session on which set_dark_threshold_auto() has just failed
C11_Witness ==
    /\ Ready /\ detect_mode = 0
    /\ last.op = "set_dark_threshold_auto" /\ last.st = "error"
    /\ last.ev = <<>>
    /\ light_threshold = 20000 /\ dark_threshold = 30000

\* the opcode and the attribute of an auto-calibration call
AutoOpcode(op) == IF op = "set_light_threshold_auto" THEN "L" ELSE "D"

\* C12: auto-calibration in derivative mode writes exactly one opcode ('L'
\* or 'D') without payload; while the read is pending nothing is stored and
\* nothing else runs; when the call returns it has done one int32 read and
\* the threshold stored is the reply the device sent to that opcode, with
\* the other threshold and detect_mode unchanged and no 'T' or 'K' written.
C12_AutoCalibration ==
    [][ /\ (Called /\ detect_mode = 1
              /\ last'.op \in {"set_light_threshold_auto", "set_dark_threshold_auto"})
            => /\ last'.st = "pending"
               /\ last'.ev = << Event("write", AutoOpcode(last'.op), 0, "none", port) >>
               /\ pc' \in {"auto_light", "auto_dark"}
               /\ UNCHANGED <<light_threshold, dark_threshold, detect_mode>>
        /\ (driver = "v4" /\ pc \in {"auto_light", "auto_dark"} /\ pc' = "ready")
            => /\ last'.op = last.op /\ last'.st = "ok"
               /\ Len(last'.ev) = 4
               /\ last'.ev[1] = Event("write", AutoOpcode(last.op), 0, "none", port)
               /\ last'.ev[2].k = "device" /\ last'.ev[3].k = "read"
               /\ last'.ev[3].val = last'.ev[2].val
               /\ pc = "auto_light" =>
                     (light_threshold' = last'.ev[2].val /\ UNCHANGED dark_threshold)
               /\ pc = "auto_dark" =>
                     (dark_threshold' = last'.ev[2].val /\ UNCHANGED light_threshold)
               /\ UNCHANGED detect_mode
      ]_vars

\* the samples the device sent in answer to the 'V' of a call with effects ev,
\* in the order it sent them
SamplesSent(ev) ==
    LET d == SelectSeq(ev, LAMBDA e : e.k = "device" /\ e.op = "V")
    IN  [i \in DOMAIN d |-> d[i].val]

\* C13: read_sensor(n) with n <= 0 raises before anything is written; with
\* n > 0 it writes 'V' with n as one uint32, does one read of n uint16
\* values and returns exactly the n samples the device sent in answer, in
\* the order it sent them, each in [0, 65535]; thresholds and detect_mode
\* are as before in both cases.
C13_ReadSensor ==
    [][ /\ (Called /\ last'.op = "read_sensor") =>
            /\ last'.arg <= 0 =>
                  /\ last'.st = "error" /\ last'.ev = <<>> /\ last'.ret = <<>>
                  /\ pc' = "ready" /\ rx' = rx
            /\ last'.arg > 0 =>
                  /\ last'.st = "pending" /\ pc' = "read_sensor"
                  /\ WritesOf(last'.ev) = << Event("write", "V", last'.arg, "uint32", port) >>
                  /\ last'.ev[1].k = "write"
                  /\ Len(SamplesSent(last'.ev)) = last'.arg
                  /\ \A i \in DOMAIN last'.ev : last'.ev[i].k # "read"
            /\ UNCHANGED <<light_threshold, dark_threshold, detect_mode>>
        /\ (driver = "v4" /\ pc = "read_sensor" /\ pc' = "ready") =>
            /\ last'.op = "read_sensor" /\ last'.arg = last.arg /\ last'.st = "ok"
            /\ last'.ev = Append(last.ev, Event("read", "", last.arg, "uint16", port))
            /\ Len(last'.ret) = last.arg
            /\ Len(last'.src) = 2 * last.arg
            /\ \A i \in DOMAIN last'.ret : last'.ret[i] \in 0..65535
            /\ last'.ret = SamplesSent(last.ev)
            /\ UNCHANGED <<light_threshold, dark_threshold, detect_mode>>
      ]_vars

\* read_sensor(2) has just returned the two samples the device sent, which
\* differ, in the order it sent them
C13_Witness ==
    /\ Ready /\ last.op = "read_sensor" /\ last.arg = 2 /\ last.st = "ok"
    /\ SamplesSent(last.ev) = << 0, 65535 >>
    /\ last.ret = << 0, 65535 >>
    /\ \A i \in DOMAIN last.src : last.src[i].tag = "r"

\* C14: detect_mode changes only in a detect_mode setter call; a setter call
\* with a value outside {0, 1} raises without writing; a setter call with
\* the current mode writes 'M' and leaves both thresholds as they were.
C14_DetectModeTransitions ==
    [][ /\ (Connected /\ detect_mode' # detect_mode) => last'.op = "detect_mode"
        /\ (Called /\ last'.op = "detect_mode" /\ last'.arg \notin {0, 1})
              => /\ last'.st = "error" /\ last'.ev = <<>>
                 /\ UNCHANGED <<light_threshold, dark_threshold, detect_mode>>
        /\ (Called /\ last'.op = "detect_mode" /\ last'.arg = detect_mode)
              => /\ last'.st = "ok"
                 /\ last'.ev = << Event("write", "M", detect_mode, "uint8", port),
                                  Event("assign", "_detect_mode", detect_mode, "attr", port) >>
                 /\ UNCHANGED <<light_threshold, dark_threshold, detect_mode>>
      ]_vars

\* detect_mode = 1 on a derivative-mode session of hardware version 2 whose
\* light_threshold is not the default: the threshold is kept
C14_Witness ==
    /\ Ready /\ hardware_version = 2 /\ detect_mode = 1
    /\ last.op = "detect_mode" /\ last.arg = 1 /\ last.st = "ok"
    /\ light_threshold = 1000

\* C15: the device streams only inside a stream_ui call: whenever stream_ui
\* is not running, and in particular when the port is released, the last
\* 'S' command written was 'S',0.
C15_StreamingStopped ==
    streaming => (pc = "streaming" /\ port # 0)

\* the window has just been closed after the device pushed samples
C15_Witness ==
    /\ pc = "closing" /\ last.op = "closeEvent" /\ ~streaming /\ rx # <<>>
    /\ last.ev = << Event("write", "S", 0, "uint8", port) >>

\* positions of the events of one kind in ev
EventsAt(ev, k) == { i \in DOMAIN ev : ev[i].k = k }

\* C16: with hardware version 3 the first transport is closed and a new one
\* opened at full speed right after the hardware reply, every earlier
\* command went to the first transport and every later one ('M', 'G' and
\* all commands after connect) goes to the new one; with any other hardware
\* version there is one transport, never reopened.
C16_TransportRenegotiation ==
    Connected =>
        LET p == IF hardware_version = 3 THEN BaudFull ELSE BaudInitial
            ev == last.ev
        IN  /\ port = p
            /\ last.op # "connect" => \A i \in DOMAIN ev : ev[i].port = p
            /\ last.op = "connect" =>
                  /\ \A i \in EventsAt(ev, "write") :
                        ev[i].op \in {"M", "G"} => ev[i].port = p
                  /\ hardware_version # 3 =>
                        (EventsAt(ev, "close") = {} /\ Cardinality(EventsAt(ev, "open")) = 1)
                  /\ hardware_version = 3 =>
                        \E c \in EventsAt(ev, "close") :
                            /\ EventsAt(ev, "close") = {c}
                            /\ EventsAt(ev, "open") = {1, c + 1}
                            /\ ev[c].val = BaudInitial /\ ev[c + 1].val = BaudFull
                            /\ ev[c - 1].k = "read" /\ ev[c - 1].val = 3
                            /\ \A i \in DOMAIN ev : ev[i].port = IF i <= c THEN BaudInitial ELSE BaudFull
                            /\ \A i \in EventsAt(ev, "write") : i > c <=> ev[i].op \in {"M", "G"}

C16_Witness ==
    /\ Ready /\ hardware_version = 3 /\ port = BaudFull /\ last.op = "connect"
    /\ \E i \in DOMAIN last.ev : last.ev[i] = Event("write", "G", ActivationMargin, "uint32", BaudFull)

\* C17: the bytes a read_sensor or auto-calibration call consumes are never
\* bytes of unsolicited streaming samples, and the threshold an
\* auto-calibration stores is the reply the device sent to its opcode.
C17_RepliesAligned ==
    (driver = "v4" /\ last.st = "ok"
       /\ last.op \in {"read_sensor", "set_light_threshold_auto", "set_dark_threshold_auto"})
        => /\ \A i \in DOMAIN last.src : last.src[i].tag # "s"
           /\ last.op # "read_sensor" => last.ev[3].val = last.ev[2].val

\* the values of a threshold exchanged with the device in the effects ev of a
\* call, oldest first: the light threshold travels in 'T' and comes back
\* after 'L', the dark threshold travels in 'K' and comes back after 'D'
ExchangedIn(ev, command, calibration) ==
    SelectSeq(ev, LAMBDA e : \/ e.k = "write" /\ e.op = command
                             \/ e.k = "device" /\ e.op = calibration)

\* the threshold value agrees with the exchanges of the call: it is the value
\* exchanged last, or there was no exchange and it is the value it was
AgreesWithDevice(exchanges, before, after) ==
    IF exchanges = <<>> THEN after = before
    ELSE after = exchanges[Len(exchanges)].val

\* C18: on a ready session each threshold in memory is the value last
\* exchanged with the device for it (written in a threshold command or sent
\* by the device as its calibration result): the thresholds in effect when
\* connect returns have been transmitted during connect, and every call
\* after it leaves each threshold at the value it exchanged last, or as it
\* was if it exchanged none.
C18_ThresholdsExchanged ==
    [][ (driver = "v4" /\ pc' = "ready" /\ last' # last) =>
            LET lights == ExchangedIn(last'.ev, "T", "L")
                darks == ExchangedIn(last'.ev, "K", "D")
            IN  IF last'.op = "connect"
                THEN /\ lights # <<>> /\ lights[Len(lights)].val = light_threshold'
                     /\ darks # <<>> /\ darks[Len(darks)].val = dark_threshold'
                ELSE /\ AgreesWithDevice(lights, light_threshold, light_threshold')
                     /\ AgreesWithDevice(darks, dark_threshold, dark_threshold')
      ]_vars

V2ThresholdOps ==
    {"lightThreshold", "darkThreshold", "setLightThreshold_Auto", "setDarkThreshold_Auto"}

\* C19: every completed v2 threshold assignment or auto-calibration writes
\* exactly one 'T' command, whose int16 pair is (lightThreshold,
\* darkThreshold) as they stand after the operation; the threshold not being
\* set is unchanged, and an auto-calibration stores the device's reply.
C19_V2WritesFullPair ==
    [][ (driver = "v2" /\ last' # last /\ last'.op \in V2ThresholdOps /\ last'.st = "ok") =>
            LET ev == last'.ev
                t == { i \in EventsAt(ev, "write") : ev[i].op = "T" }
                d == EventsAt(ev, "device")
            IN  /\ \E i \in t :
                      /\ t = {i}
                      /\ ev[i] = Event("write", "T", light_threshold', "int16", port)
                      /\ ev[i + 1] = Event("more", "T", dark_threshold', "int16", port)
                /\ last'.op \in {"lightThreshold", "setLightThreshold_Auto"}
                      => dark_threshold' = dark_threshold
                /\ last'.op \in {"darkThreshold", "setDarkThreshold_Auto"}
                      => light_threshold' = light_threshold
                /\ last'.op = "lightThreshold" => light_threshold' = last'.arg
                /\ last'.op = "darkThreshold" => dark_threshold' = last'.arg
                /\ last'.op = "setLightThreshold_Auto"
                      => \E i \in d : d = {i} /\ ev[i].val = light_threshold'
                /\ last'.op = "setDarkThreshold_Auto"
                      => \E i \in d : d = {i} /\ ev[i].val = dark_threshold'
      ]_vars

\* the dark threshold has just been calibrated on a v2 session whose light
\* threshold is not the default
C19_Witness ==
    /\ ReadyV2 /\ last.op = "setDarkThreshold_Auto" /\ last.st = "ok"
    /\ light_threshold = 7 /\ dark_threshold = 32767

\* C20: a run of update_plot_data with fewer than 2 bytes available reads
\* nothing; with b >= 2 bytes available it asks for exactly b \div 2
\* samples in one read, which are no more bytes than are buffered, and
\* leaves at most one byte unread.
C20_PlotReadsWholeSamples ==
    [][ (pc \in {"streaming", "closing"} /\ last'.op = "update_plot_data"
           /\ bursts' = bursts /\ wire' = wire) =>
            LET b == Len(rx)
            IN  /\ last'.arg = b
                /\ b < 2 => (last'.ev = <<>> /\ rx' = rx)
                /\ b >= 2 =>
                      /\ last'.ev = << Event("read", "", b \div 2, "uint16", port) >>
                      /\ 2 * (b \div 2) <= b
                      /\ Len(last'.src) = 2 * (b \div 2)
                      /\ rx' = SubSeq(rx, 2 * (b \div 2) + 1, b)
                      /\ Len(rx') <= 1
      ]_vars

\* three bytes were available: one sample was read and one byte is left
C20_Witness ==
    /\ pc = "streaming" /\ last.op = "update_plot_data" /\ last.arg = 3
    /\ last.ev = << Event("read", "", 1, "uint16", port) >>
    /\ Len(rx) = 1

\* C21: ypos is always in [0, 1999] and only indices 0..1999 of the plot
\* buffer ever hold a sample; a run of update_plot_data that reads n samples
\* with ypos + n >= 2000 clears the buffer and sets ypos to 0, and any other
\* writes the samples at ypos .. ypos + n - 1 and advances ypos by n.
C21_PlotBufferBounds ==
    [][ /\ ypos' \in 0..(PlotLen - 1)
        /\ y' \subseteq 0..(PlotLen - 1)
        /\ (pc \in {"streaming", "closing"} /\ last'.op = "update_plot_data"
              /\ bursts' = bursts /\ wire' = wire /\ Len(rx) >= 2) =>
              LET n == Len(rx) \div 2
              IN  /\ ypos + n >= PlotLen => (ypos' = 0 /\ y' = {})
                  /\ ypos + n < PlotLen =>
                        /\ ypos' = ypos + n
                        /\ y' = y \cup (ypos .. ypos + n - 1)
      ]_vars

\* a batch that ends exactly at the end of the buffer has just cleared it:
\* 1999 samples were in the buffer and one more was read
C21_Witness ==
    /\ pc = "streaming" /\ last.op = "update_plot_data" /\ last.arg \in {2, 3}
    /\ ypos = 0 /\ y = {} /\ bursts >= 2

====
